---- MODULE Spec2Model ----
(***************************************************************************)
(* Model of jsonlines.py: the Reader and Writer of the JSON Lines format,  *)
(* their shared lifecycle base (close, context manager) and open().        *)
(*                                                                         *)
(* One Reader or Writer object is modelled together with the stream it is  *)
(* built around.  A stream is a sequence of lines (source of a Reader) or  *)
(* a sequence of written chunks (sink of a Writer).  The JSON parser and   *)
(* serializer are tables over a set of representative lines and values.    *)
(***************************************************************************)
EXTENDS Integers, Sequences, FiniteSets, TLC

\* ------------------------------------------------------------------ bounds
MaxLines == 3        \* longest source stream of SpecRead
MaxShortLines == 1   \* longest source stream of Spec and SpecTypes
MaxWrites == 3       \* most lines a Writer writes in one behaviour

\* ------------------------------------------------------------ JSON values
NoValue == [kind |-> "none", v |-> ""]

\* The text of the lines a source stream may hold (without the newline).
LineTexts ==
  {"1", "1.5", "1.0", "true", "false", "null", "\"a\"", "{\"a\":1}", "[1]",
   "not json", ""}

\* The lines of the iteration specification: two integers, a string, the
\* null line and a line that is not JSON.
IterLineTexts == {"1", "2", "\"a\"", "null", "not json"}

\* The lines of the error specification: an integer, and a null line and
\* a line that is not JSON, each with trailing whitespace.
ErrLineTexts == {"1", "null ", "not json \t"}

\* The lines of the lifecycle specification: a valid line, the null line,
\* a second valid line and a line that is not JSON.
CoreLineTexts == {"1", "null", "{\"a\":1}", "not json"}

\* json.loads(line): the decoded value, or kind "error" for a ValueError.
loads(line) ==
  CASE line = "1"           -> [kind |-> "int",   v |-> "1"]
    [] line = "2"           -> [kind |-> "int",   v |-> "2"]
    [] line = "1.5"         -> [kind |-> "float", v |-> "1.5"]
    [] line = "1.0"         -> [kind |-> "float", v |-> "1.0"]
    [] line = "true"        -> [kind |-> "bool",  v |-> "True"]
    [] line = "false"       -> [kind |-> "bool",  v |-> "False"]
    [] line = "null"        -> [kind |-> "null",  v |-> "None"]
    [] line = "null "       -> [kind |-> "null",  v |-> "None"]
    [] line = "\"a\""       -> [kind |-> "str",   v |-> "a"]
    [] line = "{\"a\":1}"   -> [kind |-> "dict",  v |-> "{a: 1}"]
    [] line = "[1]"         -> [kind |-> "list",  v |-> "[1]"]
    [] line = "{\"k\": \"v\"}" -> [kind |-> "dict", v |-> "{k: v}"]
    [] OTHER                -> [kind |-> "error", v |-> ""]

\* The classes a decoded value is an instance of (bool is a subclass of
\* int; int, bool and float are registered numbers.Number).
ClassesOf(value) ==
  CASE value.kind = "int"   -> {"int", "Number"}
    [] value.kind = "bool"  -> {"bool", "int", "Number"}
    [] value.kind = "float" -> {"float", "Number"}
    [] value.kind = "str"   -> {"text_type"}
    [] value.kind = "dict"  -> {"dict"}
    [] value.kind = "list"  -> {"list"}
    [] OTHER                -> {}

isinstance(value, cls) == cls \in ClassesOf(value)

\* TYPE_MAPPING with float mapped to numbers.Number.
TYPE_MAPPING_FloatIsNumber ==
  [t \in {"dict", "list", "str", "int", "float", "Number", "bool"} |->
     CASE t = "str"   -> "text_type"
       [] t = "float" -> "Number"
       [] OTHER       -> t]

\* TYPE_MAPPING: requested type -> class the value must be an instance of.
TYPE_MAPPING ==
  [t \in {"dict", "list", "str", "int", "float", "Number", "bool"} |->
     CASE t = "str" -> "text_type"
       [] OTHER     -> t]

\* The values of the `type` argument: no type, the keys of TYPE_MAPPING and
\* a type that is no key of it.
TypeArgs == {"None", "bogus"} \cup DOMAIN TYPE_MAPPING

\* The open() modes a caller may pass.
ModeArgs == {"r", "w", "a", "rb"}

\* ------------------------------------------------------------------- state
VARIABLES
  role,             \* "none" before construction, then "reader" or "writer"
  kind,             \* how fp was supplied: "text", "bytes" (caller) or "opened"
  wrapped,          \* self._fp is not self._text_fp
  should_close_fp,  \* self._should_close_fp
  closed,           \* self.closed
  lineno,           \* self._lineno
  flush,            \* self._flush
  py2,              \* six.PY2
  lines,            \* the lines of the source stream
  pos,              \* lines the text layer has consumed from the source
  pending,          \* chunks written to the text layer and not yet flushed
  sink,             \* chunks delivered to the underlying stream
  detached,         \* the NonClosingTextIOWrapper has been detached
  fpClosed,         \* the underlying stream fp has been closed
  it,               \* the generator returned by Reader.iter
  scope,            \* the with statement: "none", "inside", "exited"
  entered,          \* what __enter__ returned
  raised,           \* the exception raised inside the with block
  propagated,       \* the exception that left the with statement
  last,             \* the last call: operation, arguments and outcome
  yielded,          \* history: the values the generator was seen to yield
  written           \* history: the objects whose write() has returned

vars ==
  <<role, kind, wrapped, should_close_fp, closed, lineno, flush, py2, lines,
    pos, pending, sink, detached, fpClosed, it, scope, entered, raised,
    propagated, last, yielded, written>>

objVars == <<role, kind, wrapped, should_close_fp, closed, lineno, flush, py2>>
streamVars == <<lines, pos, pending, sink, detached, fpClosed>>
scopeVars == <<scope, entered, raised, propagated>>
histVars == <<yielded, written>>

NoIter ==
  [state |-> "none", type |-> "None", allow_none |-> FALSE,
   skip_invalid |-> FALSE]

Call(op, arg, allow_none, res, value) ==
  [op |-> op, arg |-> arg, allow_none |-> allow_none, res |-> res,
   value |-> value]

Init ==
  /\ role = "none"
  /\ kind = "none"
  /\ wrapped = FALSE
  /\ should_close_fp = FALSE
  /\ closed = FALSE
  /\ lineno = 0
  /\ flush = FALSE
  /\ py2 = FALSE
  /\ lines = <<>>
  /\ pos = 0
  /\ pending = <<>>
  /\ sink = <<>>
  /\ detached = FALSE
  /\ fpClosed = FALSE
  /\ it = NoIter
  /\ scope = "none"
  /\ entered = "none"
  /\ raised = "none"
  /\ propagated = "none"
  /\ last = Call("none", "", FALSE, "none", NoValue)
  /\ yielded = <<>>
  /\ written = <<>>

\* ------------------------------------------------------------- the streams
\* All sequences over S of length at most n.
SeqsUpTo(S, n) == UNION {[1..k -> S] : k \in 0..n}

\* An operation on the text layer raises ValueError once the wrapper is
\* detached or, without a wrapper, once fp itself is closed.
TextLayerUsable == IF wrapped THEN ~detached ELSE ~fpClosed

\* ReaderWriterBase.__init__ followed by the probe of fp: a byte stream is
\* wrapped in a NonClosingTextIOWrapper.
BaseInit(k) ==
  /\ kind' = k
  /\ wrapped' = (k = "bytes")
  /\ closed' = FALSE
  /\ detached' = FALSE
  /\ fpClosed' = FALSE

\* ------------------------------------------------------------------ Reader
NewReader(k, ls) ==
  /\ role = "none"
  /\ k \in {"text", "bytes"}
  /\ role' = "reader"
  /\ BaseInit(k)
  /\ should_close_fp' = FALSE
  /\ lineno' = 0
  /\ lines' = ls
  /\ pos' = 0
  /\ last' = Call("Reader", k, FALSE, "ok", NoValue)
  /\ UNCHANGED <<flush, py2, pending, sink, it, scopeVars, histVars>>

\* The characters str.rstrip() removes.
Whitespace == {" ", "\t", "\n", "\r"}

\* line.rstrip(): the text without its trailing whitespace.
RECURSIVE rstrip(_)
rstrip(s) ==
  IF s = "" THEN s
  ELSE IF SubSeq(s, Len(s), Len(s)) \in Whitespace
  THEN rstrip(SubSeq(s, 1, Len(s) - 1))
  ELSE s

\* InvalidLineError.__init__ keeping the line as readline returned it.
InvalidLineErrorKeepsWhitespace(line, n) ==
  [kind |-> "InvalidLineError", line |-> line, lineno |-> n]

\* InvalidLineError.__init__ (lines 52-55): the attributes of the error.
InvalidLineError(line, n) ==
  [kind |-> "InvalidLineError", line |-> rstrip(line), lineno |-> n]

\* What readline() returned for a line of the stream, as the value of a
\* failed decoding: the text of the line and its newline.
RawLine(line) == [kind |-> "raw", v |-> line \o "\n"]

\* The value a call ends with: the error raised with the line number n
\* (self._lineno at the raise), or the value returned.
Outcome(res, value, n) ==
  IF res = "InvalidLineError" THEN InvalidLineError(value.v, n)
  ELSE value

\* Decode without the allow_none branch: null is always rejected.
DecodeNullNeverAllowed(line, type, allow_none) ==
  LET value == loads(line) IN
  IF value.kind \in {"error", "null"}
  THEN [res |-> "InvalidLineError", value |-> RawLine(line)]
  ELSE IF type # "None" THEN
    LET valid0 == isinstance(value, TYPE_MAPPING[type])
        valid == IF type \in {"int", "Number"}
                 THEN valid0 /\ ~isinstance(value, "bool")
                 ELSE valid0
    IN IF valid THEN [res |-> "value", value |-> value]
       ELSE [res |-> "InvalidLineError", value |-> RawLine(line)]
  ELSE [res |-> "value", value |-> value]

\* Decode with the type check applied to null as to any other value.
DecodeTypeChecksNull(line, type, allow_none) ==
  LET value == loads(line) IN
  IF value.kind = "error"
  THEN [res |-> "InvalidLineError", value |-> RawLine(line)]
  ELSE IF value.kind = "null" /\ ~allow_none
  THEN [res |-> "InvalidLineError", value |-> RawLine(line)]
  ELSE IF type # "None" THEN
    LET valid0 == isinstance(value, TYPE_MAPPING[type])
        valid == IF type \in {"int", "Number"}
                 THEN valid0 /\ ~isinstance(value, "bool")
                 ELSE valid0
    IN IF valid THEN [res |-> "value", value |-> value]
       ELSE [res |-> "InvalidLineError", value |-> RawLine(line)]
  ELSE [res |-> "value", value |-> value]

\* Decode without the exclusion of bool from int and numbers.Number.
DecodeBoolIsInt(line, type, allow_none) ==
  LET value == loads(line) IN
  IF value.kind = "error"
  THEN [res |-> "InvalidLineError", value |-> RawLine(line)]
  ELSE IF value.kind = "null" THEN
    IF allow_none THEN [res |-> "value", value |-> value]
    ELSE [res |-> "InvalidLineError", value |-> RawLine(line)]
  ELSE IF type # "None" THEN
    IF isinstance(value, TYPE_MAPPING[type])
    THEN [res |-> "value", value |-> value]
    ELSE [res |-> "InvalidLineError", value |-> RawLine(line)]
  ELSE [res |-> "value", value |-> value]

\* Lines 137-158 of Reader.read: decode the line, reject null unless
\* allow_none, check the requested type.
Decode(line, type, allow_none) ==
  LET value == loads(line) IN
  IF value.kind = "error"
  THEN [res |-> "InvalidLineError", value |-> RawLine(line)]
  ELSE IF value.kind = "null" THEN
    IF allow_none THEN [res |-> "value", value |-> value]
    ELSE [res |-> "InvalidLineError", value |-> RawLine(line)]
  ELSE IF type # "None" THEN
    LET valid0 == isinstance(value, TYPE_MAPPING[type])
        valid == IF type \in {"int", "Number"}
                 THEN valid0 /\ ~isinstance(value, "bool")
                 ELSE valid0
    IN IF valid THEN [res |-> "value", value |-> value]
       ELSE [res |-> "InvalidLineError", value |-> RawLine(line)]
  ELSE [res |-> "value", value |-> value]

\* The argument check of Reader.read (lines 129-130).
TypeRejected(type) == type # "None" /\ type \notin DOMAIN TYPE_MAPPING

\* Reader.read with _lineno incremented only after json.loads succeeded.
ReadAtLinenoAfterParse(p, type, allow_none) ==
  IF TypeRejected(type)
  THEN [res |-> "ValueError", value |-> NoValue, n |-> 0, inc |-> 0]
  ELSE IF ~TextLayerUsable
  THEN [res |-> "ValueError", value |-> NoValue, n |-> 0, inc |-> 0]
  ELSE IF p >= Len(lines)
  THEN [res |-> "EOFError", value |-> NoValue, n |-> 0, inc |-> 0]
  ELSE LET d == Decode(lines[p + 1], type, allow_none)
       IN [res |-> d.res, value |-> d.value, n |-> 1,
           inc |-> IF loads(lines[p + 1]).kind = "error" THEN 0 ELSE 1]

\* Reader.read with the check of the type argument made after readline.
ReadAtLateTypeCheck(p, type, allow_none) ==
  IF ~TextLayerUsable
  THEN [res |-> "ValueError", value |-> NoValue, n |-> 0, inc |-> 0]
  ELSE IF p >= Len(lines)
  THEN [res |-> "EOFError", value |-> NoValue, n |-> 0, inc |-> 0]
  ELSE IF TypeRejected(type)
  THEN [res |-> "ValueError", value |-> NoValue, n |-> 1, inc |-> 1]
  ELSE LET d == Decode(lines[p + 1], type, allow_none)
       IN [res |-> d.res, value |-> d.value, n |-> 1, inc |-> 1]

\* Reader.read counting the call that meets the end of the stream: the
\* increment of _lineno placed before the test of lines 133-134.
ReadAtCountsEOF(p, type, allow_none) ==
  IF TypeRejected(type)
  THEN [res |-> "ValueError", value |-> NoValue, n |-> 0, inc |-> 0]
  ELSE IF ~TextLayerUsable
  THEN [res |-> "ValueError", value |-> NoValue, n |-> 0, inc |-> 0]
  ELSE IF p >= Len(lines)
  THEN [res |-> "EOFError", value |-> NoValue, n |-> 0, inc |-> 1]
  ELSE LET d == Decode(lines[p + 1], type, allow_none)
       IN [res |-> d.res, value |-> d.value, n |-> 1, inc |-> 1]

\* Reader.read as a function of the stream position p: the outcome, the
\* number of lines readline consumed (n) and the increment of _lineno (inc).
ReadAt(p, type, allow_none) ==
  IF TypeRejected(type)
  THEN [res |-> "ValueError", value |-> NoValue, n |-> 0, inc |-> 0]
  ELSE IF ~TextLayerUsable
  THEN [res |-> "ValueError", value |-> NoValue, n |-> 0, inc |-> 0]
  ELSE IF p >= Len(lines)
  THEN [res |-> "EOFError", value |-> NoValue, n |-> 0, inc |-> 0]
  ELSE LET d == Decode(lines[p + 1], type, allow_none)
       IN [res |-> d.res, value |-> d.value, n |-> 1, inc |-> 1]

Read(type, allow_none) ==
  /\ role = "reader"
  /\ LET r == ReadAt(pos, type, allow_none) IN
       /\ pos' = pos + r.n
       /\ lineno' = lineno + r.inc
       /\ last' = Call("read", type, allow_none, r.res,
                       Outcome(r.res, r.value, lineno + r.inc))
  /\ UNCHANGED <<role, kind, wrapped, should_close_fp, closed, flush, py2,
                 lines, pending, sink, detached, fpClosed, it, scopeVars,
                 histVars>>

\* Reader.iter: calling it only creates the generator; nothing is read
\* before the first step.
Iter(type, allow_none, skip_invalid) ==
  /\ role = "reader"
  /\ it.state = "none"
  /\ it' = [state |-> "suspended", type |-> type, allow_none |-> allow_none,
            skip_invalid |-> skip_invalid]
  /\ last' = Call("iter", type, allow_none, "ok", NoValue)
  /\ UNCHANGED <<objVars, streamVars, scopeVars, histVars>>

\* The generator body without the handler of EOFError.
RECURSIVE IterLoopEOFLeaks(_, _)
IterLoopEOFLeaks(p, l) ==
  LET r == ReadAt(p, it.type, it.allow_none) IN
  IF r.res = "value" THEN
    [res |-> "value", value |-> r.value, pos |-> p + r.n,
     lineno |-> l + r.inc, state |-> "suspended"]
  ELSE IF r.res = "InvalidLineError" /\ it.skip_invalid THEN
    IterLoopEOFLeaks(p + r.n, l + r.inc)
  ELSE
    [res |-> r.res, value |-> r.value, pos |-> p + r.n,
     lineno |-> l + r.inc, state |-> "finished"]

\* The generator body with skip_invalid ignored: InvalidLineError always
\* leaves the generator.
RECURSIVE IterLoopNeverSkips(_, _)
IterLoopNeverSkips(p, l) ==
  LET r == ReadAt(p, it.type, it.allow_none) IN
  IF r.res = "value" THEN
    [res |-> "value", value |-> r.value, pos |-> p + r.n,
     lineno |-> l + r.inc, state |-> "suspended"]
  ELSE IF r.res = "EOFError" THEN
    [res |-> "StopIteration", value |-> NoValue, pos |-> p + r.n,
     lineno |-> l + r.inc, state |-> "finished"]
  ELSE
    [res |-> r.res, value |-> r.value, pos |-> p + r.n,
     lineno |-> l + r.inc, state |-> "finished"]

\* An iterator that can be resumed after it raised InvalidLineError.
RECURSIVE IterLoopResumable(_, _)
IterLoopResumable(p, l) ==
  LET r == ReadAt(p, it.type, it.allow_none) IN
  IF r.res = "value" THEN
    [res |-> "value", value |-> r.value, pos |-> p + r.n,
     lineno |-> l + r.inc, state |-> "suspended"]
  ELSE IF r.res = "InvalidLineError" THEN
    IF ~it.skip_invalid
    THEN [res |-> "InvalidLineError", value |-> r.value, pos |-> p + r.n,
          lineno |-> l + r.inc, state |-> "suspended"]
    ELSE IterLoopResumable(p + r.n, l + r.inc)
  ELSE IF r.res = "EOFError" THEN
    [res |-> "StopIteration", value |-> NoValue, pos |-> p + r.n,
     lineno |-> l + r.inc, state |-> "finished"]
  ELSE
    [res |-> r.res, value |-> r.value, pos |-> p + r.n,
     lineno |-> l + r.inc, state |-> "finished"]

\* One step of the generator body (lines 173-181) from stream position p
\* and line number l: read until a value is yielded, an error leaves the
\* generator or EOFError ends it.
RECURSIVE IterLoop(_, _)
IterLoop(p, l) ==
  LET r == ReadAt(p, it.type, it.allow_none) IN
  IF r.res = "value" THEN
    [res |-> "value", value |-> r.value, pos |-> p + r.n,
     lineno |-> l + r.inc, state |-> "suspended"]
  ELSE IF r.res = "InvalidLineError" THEN
    IF ~it.skip_invalid
    THEN [res |-> "InvalidLineError", value |-> r.value, pos |-> p + r.n,
          lineno |-> l + r.inc, state |-> "finished"]
    ELSE IterLoop(p + r.n, l + r.inc)
  ELSE IF r.res = "EOFError" THEN
    [res |-> "StopIteration", value |-> NoValue, pos |-> p + r.n,
     lineno |-> l + r.inc, state |-> "finished"]
  ELSE
    [res |-> r.res, value |-> r.value, pos |-> p + r.n,
     lineno |-> l + r.inc, state |-> "finished"]

\* next() on the generator: a finished generator raises StopIteration
\* without running any code of Reader.iter.  The step leaves `yielded` to
\* its observer: IterNext records nothing, IterNextObserved records the
\* value the step yielded.
IterNextCore ==
  /\ role = "reader"
  /\ it.state # "none"
  /\ LET r == IF it.state = "finished"
              THEN [res |-> "StopIteration", value |-> NoValue, pos |-> pos,
                    lineno |-> lineno, state |-> "finished"]
              ELSE IterLoop(pos, lineno)
     IN
       /\ pos' = r.pos
       /\ lineno' = r.lineno
       /\ it' = [it EXCEPT !.state = r.state]
       /\ last' = Call("next", it.type, it.allow_none, r.res,
                       Outcome(r.res, r.value, r.lineno))
  /\ UNCHANGED <<role, kind, wrapped, should_close_fp, closed, flush, py2,
                 lines, pending, sink, detached, fpClosed, scopeVars,
                 written>>

IterNext == IterNextCore /\ UNCHANGED yielded

IterNextObserved ==
  /\ IterNextCore
  /\ yielded' = IF last'.res = "value" THEN Append(yielded, last'.value)
                ELSE yielded

\* ------------------------------------------------------------------- close
\* close() without the early return of a closed object.
CloseEffectNoGuard ==
  IF wrapped /\ detached THEN
    [closed |-> TRUE, pending |-> pending, sink |-> sink,
     detached |-> detached, fpClosed |-> fpClosed, res |-> "ValueError"]
  ELSE
    LET flushed == wrapped \/ (should_close_fp /\ ~fpClosed) IN
    [closed |-> TRUE,
     pending |-> IF flushed THEN <<>> ELSE pending,
     sink |-> IF flushed THEN sink \o pending ELSE sink,
     detached |-> IF wrapped THEN TRUE ELSE detached,
     fpClosed |-> IF should_close_fp THEN TRUE ELSE fpClosed,
     res |-> "ok"]

\* close() closing fp whether or not the object owns it.
CloseEffectClosesFp ==
  IF closed THEN
    [closed |-> closed, pending |-> pending, sink |-> sink,
     detached |-> detached, fpClosed |-> fpClosed, res |-> "ok"]
  ELSE
    [closed |-> TRUE, pending |-> <<>>, sink |-> sink \o pending,
     detached |-> IF wrapped THEN TRUE ELSE detached,
     fpClosed |-> TRUE, res |-> "ok"]

\* ReaderWriterBase.close (lines 79-85) as a function of the state: the new
\* values of the fields and of the stream layers.
\* NonClosingTextIOWrapper.close flushes and detaches; closing fp flushes
\* what the text layer still buffers and closes the stream.
CloseEffect ==
  IF closed THEN
    [closed |-> closed, pending |-> pending, sink |-> sink,
     detached |-> detached, fpClosed |-> fpClosed, res |-> "ok"]
  ELSE IF wrapped /\ detached THEN
    \* flush() of a detached wrapper raises ValueError
    [closed |-> TRUE, pending |-> pending, sink |-> sink,
     detached |-> detached, fpClosed |-> fpClosed, res |-> "ValueError"]
  ELSE
    LET flushed == wrapped \/ (should_close_fp /\ ~fpClosed) IN
    [closed |-> TRUE,
     pending |-> IF flushed THEN <<>> ELSE pending,
     sink |-> IF flushed THEN sink \o pending ELSE sink,
     detached |-> IF wrapped THEN TRUE ELSE detached,
     fpClosed |-> IF should_close_fp THEN TRUE ELSE fpClosed,
     res |-> "ok"]

Close ==
  /\ role # "none"
  /\ LET c == CloseEffect IN
       /\ closed' = c.closed
       /\ pending' = c.pending
       /\ sink' = c.sink
       /\ detached' = c.detached
       /\ fpClosed' = c.fpClosed
       /\ last' = Call("close", "", FALSE, c.res, NoValue)
  /\ UNCHANGED <<role, kind, wrapped, should_close_fp, lineno, flush, py2,
                 lines, pos, it, scopeVars, histVars>>

\* ------------------------------------------------------------------ Writer
\* The objects a caller may write: an integer, a text string, a mapping and
\* an object the JSON encoder cannot represent.
WriteValues ==
  {[kind |-> "int", v |-> "1"], [kind |-> "str", v |-> "a"],
   [kind |-> "dict", v |-> "{k: v}"], [kind |-> "object", v |-> "object()"]}

\* json.dumps(obj, ensure_ascii=False): the line, or "" with ok FALSE for
\* the TypeError of an object that is not serializable.
dumps(obj) ==
  CASE obj = [kind |-> "int", v |-> "1"]       -> [ok |-> TRUE, line |-> "1"]
    [] obj = [kind |-> "str", v |-> "a"]       -> [ok |-> TRUE, line |-> "\"a\""]
    [] obj = [kind |-> "dict", v |-> "{k: v}"] ->
         [ok |-> TRUE, line |-> "{\"k\": \"v\"}"]
    [] OTHER                                   -> [ok |-> FALSE, line |-> ""]

\* On Python 2 json.dumps returns a byte string unless the object holds
\* unicode text; the text string of WriteValues is a unicode object.
isBinaryLine(obj) == py2 /\ obj.kind # "str"

NewWriter(k, fl, p2) ==
  /\ role = "none"
  /\ k \in {"text", "bytes"}
  /\ role' = "writer"
  /\ BaseInit(k)
  /\ should_close_fp' = FALSE
  /\ flush' = fl
  /\ py2' = p2
  /\ pending' = <<>>
  /\ sink' = <<>>
  /\ last' = Call("Writer", k, FALSE, "ok", NoValue)
  /\ UNCHANGED <<lineno, lines, pos, it, scopeVars, histVars>>

\* Writer.write without the flush of lines 234-235.
WriteEffectNoFlush(obj, pend, snk) ==
  LET d == dumps(obj) IN
  IF ~d.ok
  THEN [pending |-> pend, sink |-> snk, res |-> "TypeError", done |-> 0]
  ELSE
    LET direct == isBinaryLine(obj) /\ wrapped IN
    IF ~direct /\ ~TextLayerUsable
    THEN [pending |-> pend, sink |-> snk, res |-> "ValueError", done |-> 0]
    ELSE [pending |-> IF direct THEN pend ELSE pend \o <<d.line, "\n">>,
          sink |-> IF direct THEN snk \o <<d.line, "\n">> ELSE snk,
          res |-> "ok", done |-> 1]

\* Writer.write (lines 214-235) on a stream holding the chunks pend
\* (buffered in the text layer) and snk (delivered): the chunks afterwards,
\* the outcome and the number of calls of write that returned (done).
WriteEffect(obj, pend, snk) ==
  LET d == dumps(obj) IN
  IF ~d.ok
  THEN [pending |-> pend, sink |-> snk, res |-> "TypeError", done |-> 0]
  ELSE
    LET direct == isBinaryLine(obj) /\ wrapped
        snk1 == IF direct THEN snk \o <<d.line, "\n">> ELSE snk
    IN
    IF ~direct /\ ~TextLayerUsable
    THEN [pending |-> pend, sink |-> snk, res |-> "ValueError", done |-> 0]
    ELSE
      LET pend1 == IF direct THEN pend ELSE pend \o <<d.line, "\n">> IN
      IF ~flush
      THEN [pending |-> pend1, sink |-> snk1, res |-> "ok", done |-> 1]
      ELSE IF ~TextLayerUsable
      THEN [pending |-> pend1, sink |-> snk1, res |-> "ValueError",
            done |-> 0]
      ELSE [pending |-> <<>>, sink |-> snk1 \o pend1, res |-> "ok",
            done |-> 1]

WrittenLines == (Len(pending) + Len(sink)) \div 2

Write(obj) ==
  /\ role = "writer"
  /\ WrittenLines < MaxWrites
  /\ LET w == WriteEffect(obj, pending, sink) IN
       /\ pending' = w.pending
       /\ sink' = w.sink
       /\ last' = Call("write", obj.v, FALSE, w.res, NoValue)
       /\ written' = IF w.done = 1 THEN Append(written, obj) ELSE written
  /\ UNCHANGED <<objVars, lines, pos, detached, fpClosed, it, scopeVars,
                 yielded>>

\* Writer.write_all (lines 243-244): write each object in turn; the first
\* error leaves the loop.
RECURSIVE WriteAllEffect(_, _, _)
WriteAllEffect(objs, pend, snk) ==
  IF objs = <<>>
  THEN [pending |-> pend, sink |-> snk, res |-> "ok", done |-> 0]
  ELSE LET w == WriteEffect(Head(objs), pend, snk) IN
       IF w.res # "ok" THEN w
       ELSE LET rest == WriteAllEffect(Tail(objs), w.pending, w.sink)
            IN [rest EXCEPT !.done = @ + 1]

WriteAll(objs) ==
  /\ role = "writer"
  /\ WrittenLines + Len(objs) <= MaxWrites
  /\ LET w == WriteAllEffect(objs, pending, sink) IN
       /\ pending' = w.pending
       /\ sink' = w.sink
       /\ last' = Call("write_all", "", FALSE, w.res, NoValue)
       /\ written' = written \o SubSeq(objs, 1, w.done)
  /\ UNCHANGED <<objVars, lines, pos, detached, fpClosed, it, scopeVars,
                 yielded>>

\* What the underlying resource holds once everything buffered has been
\* delivered: the chunks delivered, then the chunks the text layer buffers.
Content == sink \o pending

\* The lines readline() finds in a text made of the given chunks: a line
\* ends at each newline chunk; cur is the text of the line begun.
RECURSIVE SplitLines(_, _)
SplitLines(chunks, cur) ==
  IF chunks = <<>> THEN (IF cur = "" THEN <<>> ELSE <<cur>>)
  ELSE IF Head(chunks) = "\n" THEN <<cur>> \o SplitLines(Tail(chunks), "")
  ELSE SplitLines(Tail(chunks), cur \o Head(chunks))

\* The caller of a closed Writer hands what its stream holds to a new
\* Reader (Reader.__init__, lines 108-112).
ReadBack(k) ==
  /\ role = "writer"
  /\ closed
  /\ k \in {"text", "bytes"}
  /\ role' = "reader"
  /\ BaseInit(k)
  /\ should_close_fp' = FALSE
  /\ lineno' = 0
  /\ lines' = SplitLines(Content, "")
  /\ pos' = 0
  /\ last' = Call("Reader", k, FALSE, "ok", NoValue)
  /\ UNCHANGED <<flush, py2, pending, sink, it, scopeVars, histVars>>

\* -------------------------------------------------------------------- open
\* The mode check of open() (lines 271-272).
ModeRejected(mode) == mode \notin {"r", "w"}

\* io.open(name, mode + 't') refuses a mode that is also binary.
IoOpenFails(mode) == mode = "rb"

\* open(): ls is the content of the file named (read by mode "r").
\* six.PY2 is read by Writer.write alone, so it is drawn with the Writer.
Open(mode, fl, p2, ls) ==
  /\ role = "none"
  /\ IF ModeRejected(mode) \/ IoOpenFails(mode) THEN
       /\ last' = Call("open", mode, FALSE, "ValueError", NoValue)
       /\ UNCHANGED <<objVars, streamVars, it, scopeVars, histVars>>
     ELSE
       /\ BaseInit("opened")
       /\ should_close_fp' = TRUE
       /\ role' = IF mode = "r" THEN "reader" ELSE "writer"
       /\ flush' = IF mode = "r" THEN flush ELSE fl
       /\ py2' = IF mode = "r" THEN py2 ELSE p2
       /\ lineno' = 0
       /\ lines' = IF mode = "r" THEN ls ELSE <<>>
       /\ pos' = 0
       /\ pending' = <<>>
       /\ sink' = <<>>
       /\ last' = Call("open", mode, FALSE, "ok", NoValue)
       /\ UNCHANGED <<it, scopeVars, histVars>>

\* --------------------------------------------------------- context manager
\* __enter__ returns self.
EnterResult == "self"

\* __exit__ returning a true value.
ExitResultSuppresses == TRUE

\* __exit__ returns False: the exception of the block is not suppressed.
ExitResult == FALSE

Enter ==
  /\ role # "none"
  /\ scope = "none"
  /\ scope' = "inside"
  /\ entered' = EnterResult
  /\ last' = Call("enter", "", FALSE, "ok", NoValue)
  /\ UNCHANGED <<objVars, streamVars, it, raised, propagated, histVars>>

\* The with block ends, normally (exc = "none") or by the exception exc:
\* __exit__ calls close(); an error of close() replaces exc, and exc
\* propagates unless __exit__ returns a true value.
Exit(exc) ==
  /\ scope = "inside"
  /\ scope' = "exited"
  /\ raised' = exc
  /\ LET c == CloseEffect IN
       /\ closed' = c.closed
       /\ pending' = c.pending
       /\ sink' = c.sink
       /\ detached' = c.detached
       /\ fpClosed' = c.fpClosed
       /\ propagated' = IF c.res # "ok" THEN c.res
                        ELSE IF ExitResult THEN "none" ELSE exc
       /\ last' = Call("exit", exc, FALSE, c.res, NoValue)
  /\ UNCHANGED <<role, kind, wrapped, should_close_fp, lineno, flush, py2,
                 lines, pos, it, entered, histVars>>

\* ----------------------------------------------------------- specifications
\* The steps of a caller, with the sets the arguments are drawn from.
NewReaderStep(Texts, n) ==
  /\ role = "none"
  /\ \E k \in {"text", "bytes"}, ls \in SeqsUpTo(Texts, n) : NewReader(k, ls)

NewWriterStep ==
  /\ role = "none"
  /\ \E k \in {"text", "bytes"}, fl \in BOOLEAN, p2 \in BOOLEAN :
       NewWriter(k, fl, p2)

OpenStep(Modes, Texts, n) ==
  /\ role = "none"
  /\ \E mode \in Modes, fl \in BOOLEAN, p2 \in BOOLEAN :
       IF mode = "r"
       THEN \E ls \in SeqsUpTo(Texts, n) : Open(mode, FALSE, FALSE, ls)
       ELSE Open(mode, fl, p2, <<>>)

ReadStep(Types) ==
  /\ role = "reader"
  /\ \E type \in Types, allow_none \in BOOLEAN : Read(type, allow_none)

IterStep(Types) ==
  /\ role = "reader"
  /\ \E type \in Types, allow_none \in BOOLEAN, skip_invalid \in BOOLEAN :
       Iter(type, allow_none, skip_invalid)

WriteStep ==
  /\ role = "writer"
  /\ \E obj \in WriteValues : Write(obj)

WriteAllStep ==
  /\ role = "writer"
  /\ \E objs \in SeqsUpTo(WriteValues, MaxWrites) : WriteAll(objs)

\* The exceptions that may end a with block ("none": it ends normally).
BlockExceptions == {"none", "RuntimeError"}

ExitStep == \E exc \in BlockExceptions : Exit(exc)

\* A few values of the type argument: none, a key of TYPE_MAPPING, no key.
CoreTypeArgs == {"None", "int", "bogus"}

\* Spec: every operation of the module, on short streams.
Next ==
  \/ NewReaderStep(CoreLineTexts, MaxShortLines)
  \/ NewWriterStep
  \/ OpenStep(ModeArgs, CoreLineTexts, MaxShortLines)
  \/ ReadStep(CoreTypeArgs)
  \/ IterStep(CoreTypeArgs)
  \/ IterNext
  \/ WriteStep
  \/ WriteAllStep
  \/ Close
  \/ Enter
  \/ ExitStep

Spec == Init /\ [][Next]_vars

\* SpecRead: the operations of a Reader, on streams of up to MaxLines lines.
NextRead ==
  \/ NewReaderStep(CoreLineTexts, MaxLines)
  \/ OpenStep({"r"}, CoreLineTexts, MaxLines)
  \/ ReadStep(CoreTypeArgs)
  \/ IterStep({"None"})
  \/ IterNext
  \/ Close

SpecRead == Init /\ [][NextRead]_vars

\* SpecTypes: Reader.read with every type argument on every kind of line.
NextTypes ==
  \/ NewReaderStep(LineTexts, MaxShortLines)
  \/ ReadStep(TypeArgs)
  \/ Close

SpecTypes == Init /\ [][NextTypes]_vars

\* SpecIter: one generator of Reader.iter as the only consumer of a stream
\* of up to MaxLines lines; `yielded` records what it yields.
NextIter ==
  \/ NewReaderStep(IterLineTexts, MaxLines)
  \/ IterStep({"None", "int"})
  \/ IterNextObserved
  \/ Close

SpecIter == Init /\ [][NextIter]_vars

ReadBackStep ==
  /\ role = "writer"
  /\ \E k \in {"text", "bytes"} : ReadBack(k)

\* SpecRoundTrip: a caller writes with a Writer, closes it, and reads what
\* was written back with a generator of Reader.iter.
NextRoundTrip ==
  \/ NewWriterStep
  \/ (~closed /\ WriteStep)
  \/ (~closed /\ WriteAllStep)
  \/ (role = "writer" /\ Close)
  \/ ReadBackStep
  \/ IterStep({"None"})
  \/ IterNextObserved

SpecRoundTrip == Init /\ [][NextRoundTrip]_vars

\* The lines of the null specification: the null line and an integer.
NullLineTexts == {"null", "1"}

\* SpecNull: Reader.read and generators of Reader.iter with every type
\* argument on streams of null lines and integers.
NextNull ==
  \/ NewReaderStep(NullLineTexts, MaxLines)
  \/ ReadStep(TypeArgs)
  \/ IterStep(TypeArgs)
  \/ IterNext

SpecNull == Init /\ [][NextNull]_vars

\* SpecErr: Reader.read and generators of Reader.iter on streams of lines
\* that are invalid for some arguments and end in whitespace.
NextErr ==
  \/ NewReaderStep(ErrLineTexts, MaxLines)
  \/ ReadStep({"None", "str"})
  \/ IterStep({"None", "str"})
  \/ IterNext

SpecErr == Init /\ [][NextErr]_vars

\* ------------------------------------------------------------------ claims
\* Every action records its call in `last`, so a step with last'.op = "read"
\* is a step of Reader.read, and `last` always describes the latest call.

\* A call that obtained a line from the stream.
GotLine(call) == call.res \in {"value", "InvalidLineError"}

\* C1 as stated: every call of Reader.read, whether it returns or fails,
\* increments lineno by exactly one, so that lineno counts the calls.
C1_EveryReadCounts == [][last'.op = "read" => lineno' = lineno + 1]_vars

\* C1, amended: lineno never decreases, always equals the number of lines
\* read from the stream, and a call of Reader.read increments it by exactly
\* one when it obtained a line (it returned a value or raised
\* InvalidLineError) and leaves it unchanged when it failed with EOFError or
\* with the ValueError of a rejected argument or an unusable stream.
C1_LinenoCountsLinesRead ==
  [][/\ lineno' >= lineno
     /\ lineno' = pos'
     /\ last'.op = "read" =>
          lineno' = lineno + (IF GotLine(last') THEN 1 ELSE 0)]_vars

\* C1 witness: three calls of read consumed a valid line, an invalid line
\* and a null line, and a fourth call met the end of the stream.
C1_Witness ==
  /\ lines = <<"1", "not json", "null">>
  /\ it.state = "none"
  /\ lineno = 3
  /\ last.op = "read"
  /\ last.res = "EOFError"

\* The operations on lines.
LineOps == {"read", "next", "write", "write_all"}

\* C2 as stated: on a closed Reader or Writer every line operation fails:
\* it returns nothing, consumes no line and appends nothing to the stream.
C2_ClosedRejectsLineOps ==
  [][(closed /\ last'.op \in LineOps) =>
       /\ last'.res \notin {"value", "ok"}
       /\ pos' = pos
       /\ pending' = pending
       /\ sink' = sink]_vars

\* C3: a call of close() on a closed object (directly or by __exit__)
\* raises nothing and leaves the object and every layer of the stream as
\* they were.
C3_CloseIdempotent ==
  [][(closed /\ last'.op \in {"close", "exit"}) =>
       /\ last'.res = "ok"
       /\ closed'
       /\ UNCHANGED <<pending, sink, detached, fpClosed, role, kind, wrapped,
                      should_close_fp, lineno, flush, lines, pos, it>>]_vars

\* C3 witness: a Writer on a byte stream was closed by __exit__ after a
\* write, and close() was then called again.
C3_Witness ==
  /\ role = "writer"
  /\ kind = "bytes"
  /\ scope = "exited"
  /\ last.op = "close"
  /\ last.res = "ok"
  /\ detached
  /\ sink # <<>>

\* C4: a stream supplied by the caller is never closed (once the object is
\* closed a wrapped byte stream is detached, not closed), and closing an
\* object returned by open() closes the opened file.
C4_ClosesOnlyOwnedLayers ==
  /\ kind \in {"text", "bytes"} => ~fpClosed
  /\ (kind = "bytes" /\ closed) => detached
  /\ kind = "text" => ~detached
  /\ (kind = "opened" /\ closed) => fpClosed

\* C4 witness: a Reader on a caller's byte stream was closed after a read.
C4_Witness ==
  /\ role = "reader"
  /\ kind = "bytes"
  /\ pos > 0
  /\ closed
  /\ detached
  /\ ~fpClosed

\* C5: __enter__ returns the object itself; once the with statement is
\* left the object is closed and the exception raised inside the block, if
\* any, is the one that leaves the statement.
C5_ScopeClosesAndPropagates ==
  /\ scope # "none" => entered = "self"
  /\ scope = "exited" => (closed /\ propagated = raised)

\* C5 witness: a with block was left by an exception.
C5_Witness ==
  /\ scope = "exited"
  /\ raised = "RuntimeError"
  /\ propagated = "RuntimeError"
  /\ closed

\* C6: at the end of a stream that can still be read, Reader.read raises
\* EOFError and consumes nothing, a step of the generator of Reader.iter
\* ends it with StopIteration and no value, and a generator that has ended
\* keeps raising StopIteration without reading.
C6_EndOfStream ==
  [][/\ (/\ last'.op = "read"
         /\ ~TypeRejected(last'.arg)
         /\ TextLayerUsable
         /\ pos = Len(lines)) =>
          (last'.res = "EOFError" /\ last'.value = NoValue /\ pos' = pos)
     /\ (/\ last'.op = "next"
         /\ it.state = "suspended"
         /\ ~TypeRejected(it.type)
         /\ TextLayerUsable
         /\ pos = Len(lines)) =>
          /\ last'.res = "StopIteration"
          /\ last'.value = NoValue
          /\ it'.state = "finished"
          /\ pos' = pos
     /\ (last'.op = "next" /\ it.state = "finished") =>
          /\ last'.res = "StopIteration"
          /\ it'.state = "finished"
          /\ pos' = pos]_vars

\* C6 witness: a generator ended normally after the three lines of an open
\* Reader's stream were consumed.
C6_Witness ==
  /\ Len(lines) = 3
  /\ pos = 3
  /\ ~closed
  /\ it.state = "finished"
  /\ last.op = "next"
  /\ last.res = "StopIteration"

\* C7: a read of a line holding null consumes exactly that line and
\* returns null when allow_none is true, raises InvalidLineError when it is
\* false; the read after it acts on the line that follows.
C7_NullLine ==
  [][(/\ last'.op = "read"
      /\ ~TypeRejected(last'.arg)
      /\ TextLayerUsable
      /\ pos < Len(lines)) =>
       /\ lines[pos + 1] = "null" =>
            /\ pos' = pos + 1
            /\ lineno' = lineno + 1
            /\ IF last'.allow_none
               THEN /\ last'.res = "value"
                    /\ last'.value = [kind |-> "null", v |-> "None"]
               ELSE last'.res = "InvalidLineError"
       /\ (pos >= 1 /\ lines[pos] = "null" /\ last'.arg = "None") =>
            /\ pos' = pos + 1
            /\ lines[pos + 1] = "{\"a\":1}" =>
                 /\ last'.res = "value"
                 /\ last'.value = [kind |-> "dict", v |-> "{a: 1}"]
            /\ lines[pos + 1] = "1" =>
                 /\ last'.res = "value"
                 /\ last'.value = [kind |-> "int", v |-> "1"]
            /\ lines[pos + 1] = "not json" => last'.res = "InvalidLineError"]_vars

\* C7 witness: the lines 1, null, {"a":1} were read by three calls of read
\* and the third returned the mapping.
C7_Witness ==
  /\ lines = <<"1", "null", "{\"a\":1}">>
  /\ it.state = "none"
  /\ pos = 3
  /\ last.op = "read"
  /\ last.res = "value"
  /\ last.value.kind = "dict"

\* The recognized values of the type argument.
RecognizedTypes == {"dict", "list", "str", "int", "float", "Number", "bool"}

\* C8: Reader.read with an unrecognized type raises ValueError and changes
\* nothing (no line consumed, lineno as before); open() with a mode other
\* than "r" and "w" raises ValueError and opens no file.
C8_InvalidArgumentNoEffect ==
  [][/\ (last'.op = "read" /\ last'.arg \notin RecognizedTypes \cup {"None"}) =>
          /\ last'.res = "ValueError"
          /\ UNCHANGED <<objVars, streamVars, it, scopeVars>>
     /\ (last'.op = "open" /\ last'.arg \notin {"r", "w"}) =>
          /\ last'.res = "ValueError"
          /\ role' = "none"
          /\ kind' = "none"
          /\ UNCHANGED <<objVars, streamVars, it, scopeVars>>]_vars

\* C8 witness: read was called with an unrecognized type on an open Reader
\* with a line left to read.
C8_Witness ==
  /\ last.op = "read"
  /\ last.arg = "bogus"
  /\ last.res = "ValueError"
  /\ ~closed
  /\ pos < Len(lines)

\* The line a step of read obtains, when the stream has one to give.
ReadsLine(line) ==
  /\ last'.op = "read"
  /\ TextLayerUsable
  /\ pos < Len(lines)
  /\ lines[pos + 1] = line

\* C9: with type int or numbers.Number a line holding true or false raises
\* InvalidLineError; with type int so does a number with a fraction, and an
\* integer is returned; with numbers.Number integers and floats are
\* returned.
C9_IntegerAndNumber ==
  [][/\ \A line \in {"true", "false"} :
          (ReadsLine(line) /\ last'.arg \in {"int", "Number"}) =>
            last'.res = "InvalidLineError"
     /\ (ReadsLine("1.5") /\ last'.arg = "int") =>
          last'.res = "InvalidLineError"
     /\ (ReadsLine("1") /\ last'.arg \in {"int", "Number"}) =>
          (last'.res = "value" /\ last'.value = [kind |-> "int", v |-> "1"])
     /\ \A line \in {"1.5", "1.0"} :
          (ReadsLine(line) /\ last'.arg = "Number") =>
            /\ last'.res = "value"
            /\ last'.value = [kind |-> "float", v |-> line]]_vars

\* C9 witness: read(type=int) met a line holding true.
C9_Witness ==
  /\ last.op = "read"
  /\ last.arg = "int"
  /\ pos = 1
  /\ lines[1] = "true"
  /\ last.res = "InvalidLineError"

\* C10 as stated: with type float every line holding a JSON number, such as
\* 1 and 1.5, is returned.
C10_FloatAcceptsEveryNumber ==
  [][\A line \in {"1", "1.5", "1.0"} :
       (ReadsLine(line) /\ last'.arg = "float") => last'.res = "value"]_vars

\* C10, amended: with type float a line is returned exactly when its number
\* decodes to a float (it is written with a fraction or an exponent, as 1.5
\* and 1.0); an integer literal such as 1 raises InvalidLineError, as does
\* every line that holds no number (but null, which allow_none decides).
C10_FloatAcceptsFloatsOnly ==
  [][/\ \A line \in {"1.5", "1.0"} :
          (ReadsLine(line) /\ last'.arg = "float") =>
            /\ last'.res = "value"
            /\ last'.value = [kind |-> "float", v |-> line]
     /\ \A line \in LineTexts \ {"1.5", "1.0", "null"} :
          (ReadsLine(line) /\ last'.arg = "float") =>
            last'.res = "InvalidLineError"
     /\ (ReadsLine("null") /\ last'.arg = "float") =>
          last'.res = IF last'.allow_none THEN "value" ELSE "InvalidLineError"]_vars

\* C10 witness: read(type=float) met the line 1 and raised InvalidLineError.
C10_Witness ==
  /\ last.op = "read"
  /\ last.arg = "float"
  /\ pos = 1
  /\ lines[1] = "1"
  /\ last.res = "InvalidLineError"

\* Whether a line is valid for a requested type of None or int: it parses,
\* it is not null unless allow_none, and with type int it is an integer.
IsValidLine(line, type, allow_none) ==
  CASE line \in {"1", "2"} -> TRUE
    [] line = "\"a\""      -> type = "None"
    [] line = "null"       -> allow_none
    [] OTHER               -> FALSE

\* The value a valid line decodes to.
ValueOfLine(line) ==
  CASE line = "1"     -> [kind |-> "int", v |-> "1"]
    [] line = "2"     -> [kind |-> "int", v |-> "2"]
    [] line = "\"a\"" -> [kind |-> "str", v |-> "a"]
    [] line = "null"  -> [kind |-> "null", v |-> "None"]

\* The values of the valid lines of ls, in order.
RECURSIVE ValuesOfValidLines(_, _, _)
ValuesOfValidLines(ls, type, allow_none) ==
  IF ls = <<>> THEN <<>>
  ELSE (IF IsValidLine(Head(ls), type, allow_none)
        THEN <<ValueOfLine(Head(ls))>> ELSE <<>>)
       \o ValuesOfValidLines(Tail(ls), type, allow_none)

\* C11: a generator of iter(skip_invalid=True) on a stream that can be read
\* never raises InvalidLineError, has at each moment yielded the values of
\* the valid lines among those consumed, in order, and ends (StopIteration)
\* only at the end of the stream, having yielded the value of every valid
\* line.
C11_SkipInvalidYieldsValidLines ==
  [][(/\ last'.op = "next"
      /\ it.state = "suspended"
      /\ it.skip_invalid
      /\ TextLayerUsable) =>
       /\ last'.res \in {"value", "StopIteration"}
       /\ yielded' =
            ValuesOfValidLines(SubSeq(lines, 1, pos'), it.type, it.allow_none)
       /\ last'.res = "value" =>
            (it'.state = "suspended" /\ last'.value = yielded'[Len(yielded')])
       /\ last'.res = "StopIteration" =>
            /\ it'.state = "finished"
            /\ pos' = Len(lines)
            /\ yielded' = ValuesOfValidLines(lines, it.type, it.allow_none)]_vars

\* C11 witness: iter(skip_invalid=True) over the lines 1, not json, 2 ended
\* after yielding 1 and 2.
C11_Witness ==
  /\ lines = <<"1", "not json", "2">>
  /\ it.skip_invalid
  /\ it.state = "finished"
  /\ last.op = "next"
  /\ last.res = "StopIteration"
  /\ yielded = <<[kind |-> "int", v |-> "1"], [kind |-> "int", v |-> "2"]>>

\* C16: a generator of iter(skip_invalid=False) on a stream that can be read
\* yields the values of the lines before the first invalid line, in order;
\* at that line it raises InvalidLineError and has ended: every later step
\* raises StopIteration, yields nothing and reads nothing.
C16_InvalidLineEndsIteration ==
  [][/\ (/\ last'.op = "next"
         /\ it.state = "suspended"
         /\ ~it.skip_invalid
         /\ TextLayerUsable
         /\ pos < Len(lines)) =>
          /\ pos' = pos + 1
          /\ Len(yielded) = pos
          /\ IF IsValidLine(lines[pos + 1], it.type, it.allow_none)
             THEN /\ last'.res = "value"
                  /\ yielded' = Append(yielded, ValueOfLine(lines[pos + 1]))
                  /\ it'.state = "suspended"
             ELSE /\ last'.res = "InvalidLineError"
                  /\ yielded' = yielded
                  /\ yielded =
                       ValuesOfValidLines(SubSeq(lines, 1, pos), it.type,
                                          it.allow_none)
                  /\ it'.state = "finished"
     /\ (last'.op = "next" /\ it.state = "finished") =>
          /\ last'.res = "StopIteration"
          /\ last'.value = NoValue
          /\ yielded' = yielded
          /\ pos' = pos
          /\ it'.state = "finished"]_vars

\* C16 witness: iter() over the lines 1, not json, 2 yielded 1, raised
\* InvalidLineError and was stepped again: the line 2 is never read.
C16_Witness ==
  /\ lines = <<"1", "not json", "2">>
  /\ ~it.skip_invalid
  /\ it.state = "finished"
  /\ pos = 2
  /\ last.op = "next"
  /\ last.res = "StopIteration"
  /\ yielded = <<[kind |-> "int", v |-> "1"]>>

\* The lines of a sequence of written objects: for each, its JSON encoding
\* and one newline.
RECURSIVE Encode(_)
Encode(objs) ==
  IF objs = <<>> THEN <<>>
  ELSE <<dumps(Head(objs)).line, "\n">> \o Encode(Tail(objs))

\* C12: as long as a Writer has not been closed, its stream holds exactly
\* the encoding and the newline of each object whose write returned, in the
\* order of the calls.
C12_SinkHoldsWrittenLines ==
  (role = "writer" /\ ~closed) => Content = Encode(written)

\* C13: when a generator of Reader.iter (no type) has read back to the end
\* what a Writer wrote before it was closed, it has yielded the written
\* objects, one per write that returned, in the order of the writes.
C13_RoundTrip ==
  (/\ role = "reader"
   /\ it.state = "finished"
   /\ last.op = "next"
   /\ last.res = "StopIteration") => yielded = written

\* C14: when a write of a Writer constructed with flush=True has returned,
\* the text layer buffers nothing and the underlying stream holds the line
\* of every object written so far, the last one included, each with its
\* newline.
C14_FlushLeavesNothingBuffered ==
  (/\ role = "writer"
   /\ flush
   /\ last.op = "write"
   /\ last.res = "ok") =>
     /\ pending = <<>>
     /\ sink = Encode(written)

\* C14 witness: the second write of a flushing Writer around a byte stream
\* has returned and both lines are in the byte stream.
C14_Witness ==
  /\ role = "writer"
  /\ flush
  /\ wrapped
  /\ last.op = "write"
  /\ last.res = "ok"
  /\ Len(written) = 2
  /\ pending = <<>>
  /\ sink = <<"\"a\"", "\n", "1", "\n">>

\* Whether the JSON encoder can represent every object of objs.
AllSerializable(objs) == \A i \in 1..Len(objs) : dumps(objs[i]).ok

\* The elements of objs before the first one the encoder cannot represent.
BeforeUnserializable(objs) ==
  LET i == CHOOSE k \in 1..Len(objs) :
             ~dumps(objs[k]).ok /\ AllSerializable(SubSeq(objs, 1, k - 1))
  IN SubSeq(objs, 1, i - 1)

\* C17: write_all, on a Writer that has not been closed, of a sequence with
\* an element that cannot be serialized raises TypeError and adds to the
\* stream exactly the lines of the elements before that element, in order.
C17_WriteAllStopsAtUnserializable ==
  [][(last'.op = "write_all" /\ ~closed) =>
       \A objs \in SeqsUpTo(WriteValues, MaxWrites) :
         (WriteAll(objs) /\ ~AllSerializable(objs)) =>
           /\ last'.res = "TypeError"
           /\ Content' = Content \o Encode(BeforeUnserializable(objs))]_vars

\* C20: when the first close() of a Writer around a caller-supplied byte
\* stream returns, the byte stream holds the lines of all objects written,
\* in the order of the writes, nothing is left in the text layer, and the
\* byte stream has not been closed.
C20_CloseDeliversToByteStream ==
  [][(last'.op = "close" /\ role = "writer" /\ wrapped /\ ~closed) =>
       /\ last'.res = "ok"
       /\ closed'
       /\ pending' = <<>>
       /\ sink' = Encode(written)
       /\ ~fpClosed']_vars

\* C18: the lineno of a Reader is the number of lines consumed from its
\* stream and never exceeds the number of lines of the stream; a read that
\* raises EOFError leaves it unchanged, at the number of lines of the
\* stream; and once all lines are consumed they stay consumed, so that every
\* later read of the stream (with a valid type, while the stream can be
\* read) raises EOFError again.
C18_LinenoBoundedAndEOFStable ==
  [][role' = "reader" =>
       /\ lineno' = pos'
       /\ lineno' <= Len(lines')
       /\ (last'.op = "read" /\ last'.res = "EOFError") =>
            (lineno' = lineno /\ lineno' = Len(lines'))
       /\ (role = "reader" /\ lineno = Len(lines)) =>
            /\ lines' = lines
            /\ lineno' = lineno
            /\ (/\ last'.op = "read"
                /\ ~TypeRejected(last'.arg)
                /\ TextLayerUsable) => last'.res = "EOFError"]_vars

\* C18 witness: a generator consumed both lines of a stream and ended, and
\* a read after it raised EOFError with lineno still 2.
C18_Witness ==
  /\ Len(lines) = 2
  /\ lineno = 2
  /\ it.state = "finished"
  /\ it.skip_invalid
  /\ last.op = "read"
  /\ last.res = "EOFError"

\* C19: with allow_none true, a line holding null read from a stream that
\* can be read is returned as null by Reader.read whatever the (valid) type
\* argument, and yielded as null by a generator of Reader.iter whatever its
\* type and skip_invalid; the line is consumed and no InvalidLineError is
\* raised.
C19_NullPassesEveryType ==
  [][/\ (/\ last'.op = "read"
         /\ last'.allow_none
         /\ ~TypeRejected(last'.arg)
         /\ TextLayerUsable
         /\ pos < Len(lines)
         /\ lines[pos + 1] = "null") =>
          /\ last'.res = "value"
          /\ last'.value = [kind |-> "null", v |-> "None"]
          /\ pos' = pos + 1
     /\ (/\ last'.op = "next"
         /\ it.state = "suspended"
         /\ it.allow_none
         /\ ~TypeRejected(it.type)
         /\ TextLayerUsable
         /\ pos < Len(lines)
         /\ lines[pos + 1] = "null") =>
          /\ last'.res = "value"
          /\ last'.value = [kind |-> "null", v |-> "None"]
          /\ pos' = pos + 1
          /\ it'.state = "suspended"]_vars

\* C19 witness: after a generator iter(type=int, allow_none=True) yielded the
\* first null line of a stream, read(type=dict, allow_none=True) returned
\* null for the second.
C19_Witness ==
  /\ lines = <<"null", "null">>
  /\ pos = 2
  /\ it.state = "suspended"
  /\ it.type = "int"
  /\ it.allow_none
  /\ last.op = "read"
  /\ last.arg = "dict"
  /\ last.allow_none
  /\ last.res = "value"
  /\ last.value = [kind |-> "null", v |-> "None"]

\* The text of a line of ErrLineTexts without its trailing whitespace.
Stripped(line) ==
  CASE line = "null "       -> "null"
    [] line = "not json \t" -> "not json"
    [] OTHER                -> line

\* C15: an InvalidLineError raised by Reader.read or by a step of a
\* generator carries as lineno the position in the stream, counted from 1,
\* of the line it was raised for (the last line consumed, whatever became
\* of the lines before it) and as line the text of that line without its
\* newline and trailing whitespace.
C15_InvalidLineAttributes ==
  [][(last'.op \in {"read", "next"} /\ last'.res = "InvalidLineError") =>
       /\ pos' > pos
       /\ last'.op = "read" => pos' = pos + 1
       /\ last'.value.kind = "InvalidLineError"
       /\ last'.value.lineno = pos'
       /\ last'.value.line = Stripped(lines[pos'])]_vars

\* C15 witness: the read of the third line of a stream, `not json` followed
\* by a blank and a tab, raised InvalidLineError with lineno 3 and line
\* `not json`.
C15_Witness ==
  /\ lines = <<"1", "null ", "not json \t">>
  /\ last.op = "read"
  /\ last.res = "InvalidLineError"
  /\ last.value = [kind |-> "InvalidLineError", line |-> "not json",
                   lineno |-> 3]

====
